---- MODULE Spec2Model ----
(***************************************************************************)
(* Model of testest.py, the water-quality dashboard.  The script is run    *)
(* top to bottom on every user interaction; the state is the uploaded      *)
(* file, the values held by the sidebar/page widgets, and the elements     *)
(* the latest run put on the page.                                         *)
(***************************************************************************)
EXTENDS Integers, Sequences, FiniteSets, TLC

VARIABLES uploaded_file, widgets, out

vars == <<uploaded_file, widgets, out>>

(***************************************************************************)
(* Bounds of the model.                                                    *)
(***************************************************************************)
MaxRows == 3

Days == {1, 2}

\* time of day of a timestamp: 0 is midnight, 1 is any later time
Horas == {0, 1}

Estacoes == {"E1", "E2"}

Anos == {2021, 2022}

\* values of the parameter the bar chart averages (family AggTables)
AggValues == {4, 6, 10}

\* values of the two parameters the scatter plot pairs (family CorrTables)
CorrValuesP == {1, 2, 3}

CorrValuesQ == {1, 2}

(***************************************************************************)
(* Cell values.                                                            *)
(***************************************************************************)
\* a missing numeric cell (pandas NaN); every present value is >= 0
NaN == -1

\* the missing timestamp pandas yields for an unparseable date
NaT == [dia |-> -1, hora |-> 0]

IsNaT(t) == t.dia < 0

\* a cell of the Data column as read from the sheet
DateCell(d, h) == [tipo |-> "datetime", dia |-> d, hora |-> h]

TextCell == [tipo |-> "texto", dia |-> 0, hora |-> 0]

\* pd.to_datetime(cell, errors='coerce')
to_datetime(c) == IF c.tipo = "datetime" THEN [dia |-> c.dia, hora |-> c.hora] ELSE NaT

\* Timestamp.date(): the calendar day, the time of day dropped
date(t) == t.dia

\* pd.to_datetime(periodo[i]): a calendar date becomes that day's midnight
date_to_datetime(d) == [dia |-> d, hora |-> 0]

\* Timestamp comparisons; any comparison with NaT is False
ts_le(a, b) ==
  /\ ~IsNaT(a)
  /\ ~IsNaT(b)
  /\ (a.dia < b.dia \/ (a.dia = b.dia /\ a.hora <= b.hora))

ts_ge(a, b) == ts_le(b, a)

(***************************************************************************)
(* Sequences.                                                              *)
(***************************************************************************)
RECURSIVE SumSeq(_)
SumSeq(s) == IF s = <<>> THEN 0 ELSE Head(s) + SumSeq(Tail(s))

Column(rows, c) == [i \in 1..Len(rows) |-> rows[i][c]]

RECURSIVE GCD(_, _)
GCD(a, b) == IF b = 0 THEN a ELSE GCD(b, a % b)

\* a rational number in lowest terms; den = 0 is the float nan
Frac(n, d) ==
  IF d = 0 THEN [num |-> 0, den |-> 0]
  ELSE LET g == GCD(n, d) IN [num |-> n \div g, den |-> d \div g]

\* Series.mean(): missing values are skipped, the mean of nothing is nan
mean(s) ==
  LET present == SelectSeq(s, LAMBDA v : v # NaN)
  IN Frac(SumSeq(present), Len(present))

\* Series.unique(): the distinct values in order of first appearance
RECURSIVE unique(_)
unique(s) ==
  IF s = <<>> THEN <<>>
  ELSE LET rest == unique(SubSeq(s, 1, Len(s) - 1))
           last == s[Len(s)]
       IN IF \E i \in 1..Len(rest) : rest[i] = last THEN rest ELSE Append(rest, last)

\* DataFrame.head(): the first five rows
HeadN == 5

head(rows) == SubSeq(rows, 1, IF Len(rows) < HeadN THEN Len(rows) ELSE HeadN)

(***************************************************************************)
(* Uploaded files.  A sheet is its column names in sheet order, the set of *)
(* columns pandas reads with a numeric dtype (float64/int64), and its rows *)
(* with the RangeIndex read_excel gives them.                              *)
(***************************************************************************)
NoFile == [tipo |-> "none", columns |-> <<>>, numeric |-> {}, rows |-> <<>>]

Malformed == [tipo |-> "malformed", columns |-> <<>>, numeric |-> {}, rows |-> <<>>]

\* station coordinates
CoordX(e) == IF e = "E1" THEN 1 ELSE 3

CoordY(e) == IF e = "E1" THEN 2 ELSE 6

\* the cells of one sheet row, before the sheet's columns are chosen
Row(data, est, ano, p, q) ==
  [Data |-> data, Estacao |-> est, x |-> CoordX(est), y |-> CoordY(est),
   Ano |-> ano, P |-> p, Q |-> q]

Range(s) == {s[i] : i \in 1..Len(s)}

SeqsUpTo(S, n) == UNION {[1..k -> S] : k \in 0..n}

\* the DataFrame read_excel builds: one record per row over the sheet's columns,
\* plus the RangeIndex; a date column headed "data" holds the same cells
Sheet(columns, numeric, cells) ==
  [tipo |-> "xlsx", columns |-> columns, numeric |-> numeric \cap Range(columns),
   rows |-> [i \in 1..Len(cells) |->
               [c \in Range(columns) \cup {"idx"} |->
                  IF c = "idx" THEN i - 1
                  ELSE IF c = "data" THEN cells[i]["Data"]
                  ELSE cells[i][c]]]]

DateCells == {TextCell} \cup {DateCell(d, h) : d \in Days, h \in Horas}

\* sheets that vary the dates and the stations
FilterTables ==
  {Sheet(<<"Data", "Estacao", "x", "y">>, {"x", "y"}, cells) :
     cells \in SeqsUpTo({Row(c, "E1", 2021, 1, 1) : c \in DateCells}
                         \cup {Row(DateCell(d, 0), "E2", 2021, 1, 1) : d \in Days},
                         MaxRows)}

\* sheets that vary the year and the averaged parameter
AggTables ==
  {Sheet(<<"Data", "Estacao", "x", "y", "Ano", "P">>, {"x", "y", "Ano", "P"}, cells) :
     cells \in SeqsUpTo({Row(DateCell(1, 0), "E1", a, p, 1) : a \in Anos, p \in AggValues}
                         \cup {Row(DateCell(1, 0), "E1", 2021, NaN, 1),
                               Row(DateCell(1, 0), "E1", NaN, 4, 1)},
                         MaxRows)}

\* sheets that vary the two paired parameters
CorrTables ==
  {Sheet(<<"Data", "Estacao", "x", "y", "P", "Q">>, {"x", "y", "P", "Q"}, cells) :
     cells \in SeqsUpTo({Row(DateCell(1, 0), "E1", 2021, p, q) :
                           p \in CorrValuesP, q \in CorrValuesQ}
                         \cup {Row(DateCell(1, 0), "E1", 2021, 1, NaN)},
                         MaxRows)
               \cup {[i \in 1..4 |-> Row(DateCell(1, 0), "E1", 2021, i, 10 * i)]}}

\* sheets that vary the columns: the date column headed Data or data, the Ano
\* column present or not, zero to two parameter columns, Q numeric or text
LayoutCells ==
  << Row(DateCell(1, 1), "E1", 2021, 1, 2),
     Row(TextCell, "E1", 2021, 3, 3),
     Row(DateCell(3, 0), "E2", 2022, 2, 1) >>

LayoutTables ==
  {Sheet(<<d, "Estacao", "x", "y">> \o a \o ps, ({"x", "y", "Ano"} \cup Range(ps)) \ txt,
         LayoutCells) :
     d \in {"Data", "data"}, a \in {<<>>, <<"Ano">>},
     ps \in {<<>>, <<"P">>, <<"P", "Q">>}, txt \in {{}, {"Q"}}}

Tables == FilterTables \cup AggTables \cup CorrTables \cup LayoutTables

(***************************************************************************)
(* Widgets.  Streamlit identifies a widget by its label and arguments: a   *)
(* widget called with the arguments of the previous run returns the value  *)
(* the user left in it, any other call returns the default; a widget the   *)
(* run does not reach is forgotten.                                        *)
(***************************************************************************)
NoWidget(v) == [on |-> FALSE, args |-> <<>>, value |-> v]

NoWidgets ==
  [periodo |-> NoWidget(<<>>), estacao |-> NoWidget({}), parametro |-> NoWidget("None"),
   x_axis |-> NoWidget("None"), y_axis |-> NoWidget("None")]

Widget(prev, args, default) ==
  [on |-> TRUE, args |-> args,
   value |-> IF prev.on /\ prev.args = args THEN prev.value ELSE default]

\* st.selectbox(label, options): the first option by default, None without options
selectbox(prev, options) ==
  Widget(prev, options, IF options = <<>> THEN "None" ELSE options[1])

(***************************************************************************)
(* The page of one run.                                                    *)
(***************************************************************************)
NoCoef == [kind |-> "none", sgn |-> 0, num |-> 0, den |-> 1]

Blank ==
  [info |-> FALSE, success |-> FALSE, erro |-> "none", done |-> {}, avisos |-> {},
   preview |-> <<>>, df_filtrado |-> <<>>,
   latitude |-> Frac(0, 0), longitude |-> Frac(0, 0),
   df_barras |-> <<>>, df_corr |-> <<>>, spearman_corr |-> NoCoef,
   texto |-> [nan |-> FALSE, centesimos |-> 0]]

(***************************************************************************)
(* Stages.                                                                 *)
(***************************************************************************)
\* df['Data'] = pd.to_datetime(df['Data'], errors='coerce')
parse_dates(rows) == [i \in 1..Len(rows) |-> [rows[i] EXCEPT !["Data"] = to_datetime(@)]]

\* Series.min() / Series.max() of the parsed dates: NaT is skipped, and is the
\* result when nothing else is there
ts_min(rows) ==
  LET valid == {i \in 1..Len(rows) : ~IsNaT(rows[i].Data)}
  IN IF valid = {} THEN NaT
     ELSE rows[CHOOSE i \in valid : \A j \in valid : ts_le(rows[i].Data, rows[j].Data)].Data

ts_max(rows) ==
  LET valid == {i \in 1..Len(rows) : ~IsNaT(rows[i].Data)}
  IN IF valid = {} THEN NaT
     ELSE rows[CHOOSE i \in valid : \A j \in valid : ts_ge(rows[i].Data, rows[j].Data)].Data

\* df[(df['Data'] >= pd.to_datetime(periodo[0])) & (df['Data'] <= pd.to_datetime(periodo[1]))]
filter_periodo(df, periodo) ==
  SelectSeq(df, LAMBDA r : /\ ts_ge(r.Data, date_to_datetime(periodo[1]))
                           /\ ts_le(r.Data, date_to_datetime(periodo[2])))

\* df_filtrado[df_filtrado["Estacao"].isin(estacao_selecionada)]
filter_estacao(df, estacao_selecionada) ==
  SelectSeq(df, LAMBDA r : r.Estacao \in estacao_selecionada)

\* [col for col in df.select_dtypes(include=["float64", "int64"]).columns
\*      if col not in ["Ano", "x", "y"]]
numeric_columns(file) ==
  SelectSeq(file.columns, LAMBDA c : c \in file.numeric /\ c \notin {"Ano", "x", "y"})

\* the group keys of groupby: the distinct non-missing values, ascending
RECURSIVE sorted(_)
sorted(S) ==
  IF S = {} THEN <<>>
  ELSE LET m == CHOOSE a \in S : \A b \in S : a <= b
       IN <<m>> \o sorted(S \ {m})

\* the keys in order of first appearance, as groupby(sort=False) gives them
groupby_mean_unsorted(df, parametro) ==
  LET keys == SelectSeq(unique(Column(df, "Ano")), LAMBDA a : a # NaN)
  IN [k \in 1..Len(keys) |->
        [Ano |-> keys[k],
         media |-> mean(Column(SelectSeq(df, LAMBDA r : r.Ano = keys[k]), parametro))]]

\* df_filtrado.groupby("Ano")[parametro].mean().reset_index()
groupby_mean(df, parametro) ==
  LET keys == sorted({df[i].Ano : i \in 1..Len(df)} \ {NaN})
  IN [k \in 1..Len(keys) |->
        [Ano |-> keys[k],
         media |-> mean(Column(SelectSeq(df, LAMBDA r : r.Ano = keys[k]), parametro))]]

\* "Data" not in df.columns
missing_data_column(file) == "Data" \notin Range(file.columns)

\* len(numeric_columns) < 2
too_few_columns(cols) == Len(cols) < 2

too_few_rows_off_by_one(df_corr) == Len(df_corr) < 1

\* len(df_corr) < 2
too_few_rows(df_corr) == Len(df_corr) < 2

distinct_axes_always(x_axis, y_axis) == TRUE

\* x_axis != y_axis
distinct_axes(x_axis, y_axis) == x_axis # y_axis

\* df_filtrado.dropna(subset=[x_axis, y_axis])
dropna(df, x_axis, y_axis) ==
  SelectSeq(df, LAMBDA r : r[x_axis] # NaN /\ r[y_axis] # NaN)

(***************************************************************************)
(* scipy.stats.spearmanr: Pearson's coefficient of the average ranks.      *)
(***************************************************************************)
\* twice the average rank of each value (ties share the mean of their ranks)
rankdata(s) ==
  [i \in 1..Len(s) |->
     2 * Cardinality({j \in 1..Len(s) : s[j] < s[i]})
       + Cardinality({j \in 1..Len(s) : s[j] = s[i]}) + 1]

Dot(u, v) == SumSeq([i \in 1..Len(u) |-> u[i] * v[i]])

Sign(a) == IF a > 0 THEN 1 ELSE IF a < 0 THEN -1 ELSE 0

\* the coefficient r as its sign and r^2 in lowest terms; nan for a constant input
pearson(u, v) ==
  LET n   == Len(u)
      suv == n * Dot(u, v) - SumSeq(u) * SumSeq(v)
      suu == n * Dot(u, u) - SumSeq(u) * SumSeq(u)
      svv == n * Dot(v, v) - SumSeq(v) * SumSeq(v)
      r2  == Frac(suv * suv, suu * svv)
  IN IF suu = 0 \/ svv = 0 THEN [kind |-> "nan", sgn |-> 0, num |-> 0, den |-> 1]
     ELSE [kind |-> "val", sgn |-> Sign(suv), num |-> r2.num, den |-> r2.den]

spearmanr_raw(xs, ys) == pearson(xs, ys)

spearmanr(xs, ys) == pearson(rankdata(xs), rankdata(ys))

\* f"{spearman_corr:.2f}": the hundredths nearest to r
format2f(c) ==
  IF c.kind # "val" THEN [nan |-> TRUE, centesimos |-> 0]
  ELSE LET fits(k) == k = 0 \/ (2 * k - 1) * (2 * k - 1) * c.den <= 40000 * c.num
           k == CHOOSE k \in 0..100 : fits(k) /\ (k = 100 \/ ~fits(k + 1))
       IN [nan |-> FALSE, centesimos |-> c.sgn * k]

(***************************************************************************)
(* One run of the script: the page it builds and the widgets it leaves.    *)
(* An exception raised inside the try block keeps what is already on the   *)
(* page and adds the error of the except clause.                           *)
(***************************************************************************)
Raise(page, w) == [out |-> [page EXCEPT !.erro = "Exception"], widgets |-> w]

ReportMissingAsException(page) == Raise(page, NoWidgets)

\* st.error("O arquivo Excel deve conter uma coluna chamada 'Data'.")
ReportMissing(page) ==
  [out |-> [page EXCEPT !.erro = "MissingRequiredColumn"], widgets |-> NoWidgets]

\* lines 116-151, from the numeric columns to the coefficient
Scatter(file, df_filtrado, page, w0, w) ==
  LET cols == numeric_columns(file) IN
  IF too_few_columns(cols)
  THEN [out |-> [page EXCEPT !.avisos = @ \cup {"InsufficientNumericColumns"}], widgets |-> w]
  ELSE
    LET wx      == selectbox(w0.x_axis, cols)
        wy      == selectbox(w0.y_axis, cols)
        w2      == [w EXCEPT !.x_axis = wx, !.y_axis = wy]
        x_axis  == wx.value
        y_axis  == wy.value
        df_corr == dropna(df_filtrado, x_axis, y_axis)
    IN
    IF too_few_rows(df_corr)
    THEN [out |-> [page EXCEPT !.avisos = @ \cup {"InsufficientPairedRows"}], widgets |-> w2]
    ELSE
      LET p1 == [page EXCEPT !.done = @ \cup {"scatter"}, !.df_corr = df_corr] IN
      IF distinct_axes(x_axis, y_axis)
      THEN LET c == spearmanr(Column(df_corr, x_axis), Column(df_corr, y_axis))
           IN [out |-> [p1 EXCEPT !.done = @ \cup {"spearman"}, !.spearman_corr = c,
                                  !.texto = format2f(c)],
               widgets |-> w2]
      ELSE [out |-> [p1 EXCEPT !.avisos = @ \cup {"IdenticalAxisSelection"}], widgets |-> w2]

\* lines 90-114, the bar chart, then the scatter stage
Bars(file, df_filtrado, page, w0, w) ==
  IF "Ano" \notin Range(file.columns) THEN Scatter(file, df_filtrado, page, w0, w)
  ELSE
    LET parametros == numeric_columns(file)
        wp == selectbox(w0.parametro, parametros)
        w2 == [w EXCEPT !.parametro = wp]
    IN
    \* groupby("Ano")[None] raises KeyError
    IF wp.value = "None" THEN Raise(page, w2)
    ELSE Scatter(file, df_filtrado,
                 [page EXCEPT !.done = @ \cup {"barras"},
                              !.df_barras = groupby_mean(df_filtrado, wp.value)],
                 w0, w2)

\* lines 28-88, from the date conversion to the map, then the charts
Filter(file, page, w0) ==
  LET df       == parse_dates(file.rows)
      min_data == date(ts_min(df))
      max_data == date(ts_max(df))
  IN
  \* st.date_input cannot format NaT (NaTType does not support timetuple)
  IF IsNaT(ts_min(df)) THEN Raise(page, NoWidgets)
  ELSE
    LET wper     == Widget(w0.periodo, <<min_data, max_data>>, <<min_data, max_data>>)
        df1      == filter_periodo(df, wper.value)
        estacoes == unique(Column(df1, "Estacao"))
        west     == Widget(w0.estacao, estacoes, Range(estacoes))
        df_filtrado == filter_estacao(df1, west.value)
        w1       == [NoWidgets EXCEPT !.periodo = wper, !.estacao = west]
        p1       == [page EXCEPT !.done = @ \cup {"filter", "mapa"},
                                 !.df_filtrado = df_filtrado,
                                 !.latitude = mean(Column(df_filtrado, "y")),
                                 !.longitude = mean(Column(df_filtrado, "x"))]
    IN Bars(file, df_filtrado, p1, w0, w1)

\* lines 12-155
Script(file, w0) ==
  IF file.tipo = "none" THEN [out |-> [Blank EXCEPT !.info = TRUE], widgets |-> NoWidgets]
  ELSE IF file.tipo # "xlsx" THEN Raise(Blank, NoWidgets)
  ELSE
    LET p1 == [Blank EXCEPT !.success = TRUE, !.done = {"preview"}, !.preview = head(file.rows)]
    IN IF missing_data_column(file)
       THEN ReportMissing(p1)
       ELSE Filter(file, p1, w0)

(***************************************************************************)
(* Interactions.  Each one changes the file or one widget value and runs   *)
(* the whole script again.                                                 *)
(***************************************************************************)
RerunStale(file, w) ==
  LET r == Script(file, w)
  IN /\ uploaded_file' = file
     /\ widgets' = r.widgets
     /\ out' = [r.out EXCEPT !.df_barras = IF "barras" \in out.done /\ "barras" \in r.out.done
                                           THEN out.df_barras ELSE @]

Rerun(file, w) ==
  LET r == Script(file, w)
  IN /\ uploaded_file' = file
     /\ widgets' = r.widgets
     /\ out' = r.out

\* files that may replace a loaded one directly (one of LayoutTables or a file
\* that failed to parse); any file may follow a removal
ReplacementTables ==
  {Malformed} \cup {t \in LayoutTables : t.columns[1] = "Data" /\ {"P", "Q"} \subseteq t.numeric}

Upload(t) ==
  /\ t # uploaded_file
  /\ \/ uploaded_file = NoFile
     \/ t \in ReplacementTables /\ uploaded_file \in LayoutTables \cup {Malformed}
  /\ Rerun(t, widgets)

RemoveFile ==
  /\ uploaded_file # NoFile
  /\ Rerun(NoFile, widgets)

SetPeriodo(s, e) ==
  /\ widgets.periodo.on
  /\ widgets.periodo.args[1] <= s /\ s <= e /\ e <= widgets.periodo.args[2]
  /\ <<s, e>> # widgets.periodo.value
  /\ Rerun(uploaded_file, [widgets EXCEPT !.periodo.value = <<s, e>>])

SetEstacoes(S) ==
  /\ widgets.estacao.on
  /\ S \subseteq Range(widgets.estacao.args)
  /\ S # widgets.estacao.value
  /\ Rerun(uploaded_file, [widgets EXCEPT !.estacao.value = S])

SetParametro(c) ==
  /\ widgets.parametro.on
  /\ c \in Range(widgets.parametro.args)
  /\ c # widgets.parametro.value
  /\ Rerun(uploaded_file, [widgets EXCEPT !.parametro.value = c])

SetXAxis(c) ==
  /\ widgets.x_axis.on
  /\ c \in Range(widgets.x_axis.args)
  /\ c # widgets.x_axis.value
  /\ Rerun(uploaded_file, [widgets EXCEPT !.x_axis.value = c])

SetYAxis(c) ==
  /\ widgets.y_axis.on
  /\ c \in Range(widgets.y_axis.args)
  /\ c # widgets.y_axis.value
  /\ Rerun(uploaded_file, [widgets EXCEPT !.y_axis.value = c])

Init ==
  /\ uploaded_file = NoFile
  /\ widgets = NoWidgets
  /\ out = Script(NoFile, NoWidgets).out

Next ==
  \/ \E t \in Tables \cup {Malformed} : Upload(t)
  \/ RemoveFile
  \/ \E s \in 1..3, e \in 1..3 : SetPeriodo(s, e)
  \/ \E S \in SUBSET Estacoes : SetEstacoes(S)
  \/ \E c \in {"P", "Q"} : SetParametro(c)
  \/ \E c \in {"P", "Q"} : SetXAxis(c)
  \/ \E c \in {"P", "Q"} : SetYAxis(c)

Spec == Init /\ [][Next]_vars

(***************************************************************************)
(* What the latest run worked on.                                          *)
(***************************************************************************)
Loaded == uploaded_file.tipo = "xlsx"

HasData == Loaded /\ ~missing_data_column(uploaded_file)

ParsedRows == parse_dates(uploaded_file.rows)

Periodo == widgets.periodo.value

XAxis == widgets.x_axis.value

YAxis == widgets.y_axis.value

\* the rows of the filtered table with both chosen columns present
Paired == SelectSeq(out.df_filtrado, LAMBDA r : r[XAxis] # NaN /\ r[YAxis] # NaN)

StrictlyIncreasingIdx(rows) ==
  \A i \in 1..Len(rows), j \in 1..Len(rows) : i < j => rows[i].idx < rows[j].idx

InInterval(r) ==
  /\ ~IsNaT(r.Data)
  /\ Periodo[1] <= date(r.Data)
  /\ date(r.Data) <= Periodo[2]

(***************************************************************************)
(* C1: the Filter Stage output is exactly the rows of the table whose date *)
(* lies in the chosen interval [s, e], both calendar days inclusive, and   *)
(* whose station is selected, in their original order, unchanged.          *)
(***************************************************************************)
C1_FilterExact ==
  "filter" \in out.done =>
     /\ StrictlyIncreasingIdx(out.df_filtrado)
     /\ \A i \in 1..Len(out.df_filtrado) :
          \E j \in 1..Len(ParsedRows) : ParsedRows[j] = out.df_filtrado[i]
     /\ \A j \in 1..Len(ParsedRows) :
          (InInterval(ParsedRows[j]) /\ ParsedRows[j].Estacao \in widgets.estacao.value)
            <=> (\E i \in 1..Len(out.df_filtrado) : out.df_filtrado[i] = ParsedRows[j])

(***************************************************************************)
(* C2: a sheet without a column named exactly Data.                        *)
(***************************************************************************)
\* C2 as stated: MissingRequiredColumn is reported, not a generic error, and
\* nothing else is produced, the preview included
C2_NothingElseProduced ==
  (Loaded /\ missing_data_column(uploaded_file)) =>
     /\ out.erro = "MissingRequiredColumn"
     /\ out.done = {}

\* C2 amended: MissingRequiredColumn is reported, not a generic error, after the
\* success message and the preview of the parsed table, and no later stage
\* (filter, map, bar chart, scatter, correlation) produces anything
C2_MissingDataColumn ==
  (Loaded /\ missing_data_column(uploaded_file)) =>
     /\ out.erro = "MissingRequiredColumn"
     /\ out.success
     /\ out.done = {"preview"}
     /\ out.preview = head(uploaded_file.rows)
     /\ out.avisos = {}
     /\ out.df_filtrado = <<>> /\ out.df_barras = <<>> /\ out.df_corr = <<>>
     /\ out.spearman_corr = NoCoef
     /\ widgets = NoWidgets

C2_Witness ==
  /\ Loaded
  /\ uploaded_file.columns[1] = "data"
  /\ Len(uploaded_file.rows) > 0
  /\ out.erro = "MissingRequiredColumn"

(***************************************************************************)
(* C3: a Spearman coefficient is computed and shown only if at least two   *)
(* rows have both X and Y present and X and Y are different columns; with  *)
(* fewer than two paired rows, or X equal to Y, none is computed.          *)
(***************************************************************************)
C3_CoefficientOnlyWhenDefined ==
  /\ "spearman" \in out.done =>
        /\ widgets.x_axis.on /\ widgets.y_axis.on
        /\ Len(Paired) >= 2
        /\ XAxis # YAxis
  /\ "spearman" \notin out.done => out.spearman_corr = NoCoef

C3_Witness ==
  /\ "spearman" \in out.done
  /\ Len(Paired) = 2
  /\ Len(out.df_filtrado) = 3

DatesUsable == HasData /\ ~IsNaT(ts_min(ParsedRows))

(***************************************************************************)
(* C4: with fewer than two eligible numeric columns the run reports the    *)
(* InsufficientNumericColumns warning, skips the scatter/correlation       *)
(* stage, and filter, map and bar chart complete without an error, also    *)
(* when Ano is present and no column is eligible.                          *)
(***************************************************************************)
C4_WarningNotError ==
  (DatesUsable /\ Len(numeric_columns(uploaded_file)) < 2) =>
     /\ out.erro = "none"
     /\ "InsufficientNumericColumns" \in out.avisos
     /\ {"filter", "mapa"} \subseteq out.done
     /\ out.done \cap {"scatter", "spearman"} = {}

YearsPresent == {out.df_filtrado[i].Ano : i \in 1..Len(out.df_filtrado)} \ {NaN}

ValuesOfYear(a) ==
  LET p == widgets.parametro.value
      rows == SelectSeq(out.df_filtrado, LAMBDA r : r.Ano = a /\ r[p] # NaN)
  IN Column(rows, p)

Scenario3 ==
  /\ Len(out.df_filtrado) = 3
  /\ Column(out.df_filtrado, "Ano") = <<2021, 2021, 2022>>
  /\ Column(out.df_filtrado, "P") = <<4, 6, 10>>
  /\ widgets.parametro.value = "P"

(***************************************************************************)
(* C5: the Aggregated Series has one row per distinct year present in the  *)
(* filtered table, by year ascending, each with the arithmetic mean of the *)
(* chosen parameter over the rows of that year (over those that have a     *)
(* value; nan when none has).                                              *)
(***************************************************************************)
C5_AggregatedSeries ==
  "barras" \in out.done =>
     /\ Len(out.df_barras) = Cardinality(YearsPresent)
     /\ {out.df_barras[i].Ano : i \in 1..Len(out.df_barras)} = YearsPresent
     /\ \A i \in 1..Len(out.df_barras), j \in 1..Len(out.df_barras) :
          i < j => out.df_barras[i].Ano < out.df_barras[j].Ano
     /\ \A i \in 1..Len(out.df_barras) :
          LET vals == ValuesOfYear(out.df_barras[i].Ano)
              m == out.df_barras[i].media
          IN /\ (m.den = 0) <=> (Len(vals) = 0)
             /\ m.num * Len(vals) = m.den * SumSeq(vals)
     /\ Scenario3 =>
          out.df_barras = << [Ano |-> 2021, media |-> [num |-> 5, den |-> 1]],
                             [Ano |-> 2022, media |-> [num |-> 10, den |-> 1]] >>

C5_Witness ==
  /\ "barras" \in out.done
  /\ Len(out.df_filtrado) = 3
  /\ Column(out.df_filtrado, "Ano") = <<2022, 2021, 2021>>
  /\ Column(out.df_filtrado, "P") = <<10, 4, 6>>
  /\ Len(out.df_barras) = 2

(***************************************************************************)
(* C6: X and Y chosen as the same column.                                  *)
(***************************************************************************)
SameAxis == widgets.x_axis.on /\ widgets.y_axis.on /\ XAxis = YAxis

\* C6 as stated: the IdenticalAxisSelection warning is reported and no
\* coefficient is shown, whatever the number of paired rows
C6_WarningWhateverTheRows ==
  SameAxis =>
     /\ "IdenticalAxisSelection" \in out.avisos
     /\ "spearman" \notin out.done

\* C6 amended: no coefficient is shown, and the IdenticalAxisSelection warning
\* is reported exactly when at least two paired rows remain; with fewer the
\* InsufficientPairedRows warning is reported instead
C6_WarningWithTwoPairedRows ==
  SameAxis =>
     /\ "spearman" \notin out.done
     /\ out.spearman_corr = NoCoef
     /\ Len(Paired) >= 2 => "IdenticalAxisSelection" \in out.avisos
     /\ Len(Paired) < 2 => out.avisos = {"InsufficientPairedRows"}

C6_Witness ==
  /\ SameAxis
  /\ Len(Paired) >= 2
  /\ "IdenticalAxisSelection" \in out.avisos

(***************************************************************************)
(* C7: when the Filter Stage yields zero rows the run does not end in an   *)
(* error: the empty table goes through map and bar chart, and the          *)
(* correlation stage warns of insufficient data instead of failing.        *)
(***************************************************************************)
C7_EmptyFilterNoError ==
  ("filter" \in out.done /\ out.df_filtrado = <<>>) =>
     /\ out.erro = "none"
     /\ "mapa" \in out.done
     /\ "Ano" \in Range(uploaded_file.columns) => "barras" \in out.done /\ out.df_barras = <<>>
     /\ out.avisos \cap {"InsufficientPairedRows", "InsufficientNumericColumns"} # {}
     /\ "spearman" \notin out.done

XCol == Column(out.df_corr, XAxis)

YCol == Column(out.df_corr, YAxis)

\* strictly increasing transforms of the values of a column: every order-
\* preserving renumbering, a scaling and a convex one
Transforms(V) ==
  {f \in [V -> 1..(Cardinality(V) + 1)] : \A a \in V, b \in V : a < b => f[a] < f[b]}
    \cup {[v \in V |-> 10 * v], [v \in V |-> v * v + 1]}

Apply(f, col) == [i \in 1..Len(col) |-> f[col[i]]]

InUnitInterval(c) == c.sgn \in {-1, 0, 1} /\ 0 <= c.num /\ c.num <= c.den

RankProperties(c) ==
  /\ spearmanr(YCol, XCol) = c
  /\ \A f \in Transforms(Range(XCol)) : spearmanr(Apply(f, XCol), YCol) = c
  /\ \A f \in Transforms(Range(YCol)) : spearmanr(XCol, Apply(f, YCol)) = c

Scenario6 == XCol = <<1, 2, 3, 4>> /\ YCol = <<10, 20, 30, 40>>

C10_UnparseableNeverAnError ==
  (HasData /\ Len(uploaded_file.rows) > 0) =>
     /\ "filter" \in out.done
     /\ \A i \in 1..Len(out.df_filtrado) : ~IsNaT(out.df_filtrado[i].Data)

====
